---- MODULE Spec2Model ----
(***************************************************************************)
(* visualize_brush_variants.py as a state machine: one action per          *)
(* statement of the script, in program order.  File names are sequences of *)
(* one-character strings, file texts are sequences of rows of cells.       *)
(***************************************************************************)
EXTENDS Integers, Sequences, FiniteSets, TLC

VARIABLES pc, err, dir, csv_files, contents, arrays, global_min, global_max,
          fig, axes, panels, ims, idx, cbar

vars == <<pc, err, dir, csv_files, contents, arrays, global_min, global_max,
          fig, axes, panels, ims, idx, cbar>>

\* The largest number of entries the input directory holds.
MaxFiles == 3

\* What an object-valued name holds before the script assigns it.  (A list-valued
\* name holds the empty sequence until then; pc and err.line tell which
\* statements have run.)
None == [kind |-> "None"]

NoErr == [type |-> "none", line |-> 0]

Error(t, l) == [type |-> t, line |-> l]

----------------------------------------------------------------------------
(* Strings *)

Digits == <<"0", "1", "2", "3", "4", "5", "6", "7", "8", "9">>

IsDigit(ch) == \E d \in 1..10 : Digits[d] = ch

DigitVal(ch) == (CHOOSE d \in 1..10 : Digits[d] = ch) - 1

Prefix == <<"b", "r", "u", "s", "h", "_", "v", "a", "r", "i", "a", "n", "t", "_">>

Suffix == <<".", "c", "s", "v">>

\* str.startswith
StartsWith(s, p) == Len(s) >= Len(p) /\ SubSeq(s, 1, Len(p)) = p

\* str.endswith
EndsWith(s, p) == Len(s) >= Len(p) /\ SubSeq(s, Len(s) - Len(p) + 1, Len(s)) = p

\* The filter of the list comprehension.
Matches(f) == StartsWith(f, Prefix) /\ EndsWith(f, Suffix)

\* s.split(sep)[-1]: what follows the last separator (all of s without one).
LastField(s, sep) ==
    LET cuts == {i \in 1..Len(s) : s[i] = sep}
        last == IF cuts = {} THEN 0 ELSE CHOOSE i \in cuts : \A j \in cuts : j <= i
    IN  SubSeq(s, last + 1, Len(s))

\* s.split(sep)[0]: what precedes the first separator (all of s without one).
FirstField(s, sep) ==
    LET cuts  == {i \in 1..Len(s) : s[i] = sep}
        first == IF cuts = {} THEN Len(s) + 1
                 ELSE CHOOSE i \in cuts : \A j \in cuts : i <= j
    IN  SubSeq(s, 1, first - 1)

\* The text handed to int() by the sort key.
IndexText(f) == FirstField(LastField(f, "_"), ".")

HasSign(s) == Len(s) >= 1 /\ s[1] \in {"+", "-"}

Unsigned(s) == IF HasSign(s) THEN Tail(s) ELSE s

\* int(s) raises ValueError unless s is an optional sign and then digits.
IntFails(s) ==
    \/ Unsigned(s) = <<>>
    \/ \E i \in 1..Len(Unsigned(s)) : ~IsDigit(Unsigned(s)[i])

RECURSIVE DecimalValue(_)
DecimalValue(ds) ==
    IF ds = <<>> THEN 0
    ELSE 10 * DecimalValue(SubSeq(ds, 1, Len(ds) - 1)) + DigitVal(ds[Len(ds)])

\* int(s), base 10.
IntOf(s) ==
    IF HasSign(s) /\ s[1] = "-" THEN 0 - DecimalValue(Unsigned(s))
    ELSE DecimalValue(Unsigned(s))

\* A key that reads the first character of the index alone.
KeyOfFirstChar(f) == IntOf(<<IndexText(f)[1]>>)

KeyFails(f) == IntFails(IndexText(f))

\* The key of sorted(): lambda x: int(x.split('_')[-1].split('.')[0]).
KeyOf(f) == IntOf(IndexText(f))

RECURSIVE StrOfNat(_)
\* str(n) for n >= 0, as the f-string formats idx.
StrOfNat(n) ==
    IF n < 10 THEN <<Digits[n + 1]>>
    ELSE StrOfNat(n \div 10) \o <<Digits[(n % 10) + 1]>>

\* Titles counted from one.
TitleOfOneBased(n) == <<"V", "a", "r", "i", "a", "n", "t", " ">> \o StrOfNat(n + 1)

\* f'Variant {idx}'
TitleOf(n) == <<"V", "a", "r", "i", "a", "n", "t", " ">> \o StrOfNat(n)

----------------------------------------------------------------------------
(* The input directory *)

Brush(mid) == Prefix \o mid \o Suffix

\* The names the directory's entries are drawn from.
FileNames ==
    { Brush(<<"0">>), Brush(<<"1">>), Brush(<<"9">>), Brush(<<"1", "0">>),
      Brush(<<"1", ".", "5">>), Brush(<<"a", "_", "3">>), Brush(<<>>),
      Brush(<<"x">>),
      Prefix \o <<"3", ".", "t", "x", "t">>,
      <<"o", "l", "d", "_">> \o Brush(<<"4">>) }

\* Every listing os.listdir may return for the entries S: the order is arbitrary.
Listings(S) ==
    {l \in [1..Cardinality(S) -> S] : \A i, j \in 1..Cardinality(S) : l[i] = l[j] => i = j}

\* [f for f in listing if f.startswith(...) and f.endswith(...)]
RECURSIVE Filter(_)
Filter(l) ==
    IF l = <<>> THEN <<>>
    ELSE IF Matches(Head(l)) THEN <<Head(l)>> \o Filter(Tail(l))
    ELSE Filter(Tail(l))

\* One element put into an ascending sequence, after the elements whose key is
\* not greater: a sort by insertion from the left keeps equal keys in input order.
RECURSIVE Insert(_, _)
Insert(f, s) ==
    IF s = <<>> THEN <<f>>
    ELSE IF KeyOf(f) < KeyOf(Head(s)) THEN <<f>> \o s
    ELSE <<Head(s)>> \o Insert(f, Tail(s))

RECURSIVE Sorted(_)
\* sorted(l, key=KeyOf): ascending and stable.
Sorted(l) ==
    IF l = <<>> THEN <<>>
    ELSE Insert(l[Len(l)], Sorted(SubSeq(l, 1, Len(l) - 1)))

\* sorted() calls the key on every element before it orders any.
SortFails(l) == \E i \in 1..Len(l) : KeyFails(l[i])

----------------------------------------------------------------------------
(* File texts and np.loadtxt *)

Cell(n) == IF n < 0 THEN <<"-">> \o StrOfNat(0 - n) ELSE StrOfNat(n)

Row2(a, b) == <<Cell(a), Cell(b)>>

\* The texts a variant file may hold: comma-separated cells, one row per line.
\* Cells are decimal literals of finite numbers, or a token that is no number;
\* rows may differ in length, and a file may be empty.
FileTexts ==
    { <<Row2(0, 0), Row2(0, 0)>>,
      <<Row2(10, 10), Row2(10, 10)>>,
      <<Row2(-3, 7), Row2(4, 12)>>,
      <<<<Cell(1), Cell(2), Cell(3)>>>>,
      <<<<Cell(4)>>, <<Cell(5)>>>>,
      <<Row2(1, 2), <<Cell(3)>>>>,
      <<<<Cell(1), <<"x">>>>>>,
      <<>> }

\* float(cell) on the cells above: a decimal integer literal, or no number at all.
FloatFails(cell) == IntFails(cell)

FloatOf(cell) == IntOf(cell)

Ragged(text) == \E i, j \in 1..Len(text) : Len(text[i]) # Len(text[j])

BadCell(text) == \E i \in 1..Len(text) : \E j \in 1..Len(text[i]) : FloatFails(text[i][j])

\* A loader that takes rows of unequal length as they come.
LoadFailsOnBadCell(text) == BadCell(text)

\* np.loadtxt raises ValueError on a cell that is no number and on rows of
\* unequal length.
LoadFails(text) == BadCell(text) \/ Ragged(text)

RECURSIVE Flatten(_)
Flatten(rows) == IF rows = <<>> THEN <<>> ELSE Head(rows) \o Flatten(Tail(rows))

Parsed(text) == [i \in 1..Len(text) |-> [j \in 1..Len(text[i]) |-> FloatOf(text[i][j])]]

\* np.squeeze on a shape: the axes of length one are dropped.
Squeeze(shape) == SelectSeq(shape, LAMBDA n : n # 1)

\* np.loadtxt(path, delimiter=','), ndmin left at 0: the parsed rows, squeezed.
\* A text of no rows gives an empty one-dimensional array.
LoadTxt(text) ==
    IF text = <<>> THEN [shape |-> <<0>>, data |-> <<>>]
    ELSE [shape |-> Squeeze(<<Len(text), Len(text[1])>>), data |-> Flatten(Parsed(text))]

----------------------------------------------------------------------------
(* The range reduction *)

Float(v) == [kind |-> "float", val |-> v]

RECURSIVE FoldMin(_, _)
FoldMin(cur, s) ==
    IF s = <<>> THEN cur
    ELSE FoldMin(IF Head(s) < cur THEN Head(s) ELSE cur, Tail(s))

RECURSIVE FoldMax(_, _)
FoldMax(cur, s) ==
    IF s = <<>> THEN cur
    ELSE FoldMax(IF Head(s) > cur THEN Head(s) ELSE cur, Tail(s))

\* min() and ndarray.min() raise ValueError on nothing to reduce.
ReduceFails(s) == s = <<>>

\* min(s): the first element, replaced by each later one that is smaller.
PyMin(s) == FoldMin(Head(s), Tail(s))

\* max(s): the first element, replaced by each later one that is greater.
PyMax(s) == FoldMax(Head(s), Tail(s))

\* arr.min() / arr.max()
ArrMin(a) == PyMin(a.data)

ArrMax(a) == PyMax(a.data)

\* The generator arr.min() for arr in arrays raises at the first empty array.
EachFails(as) == \E k \in 1..Len(as) : ReduceFails(as[k].data)

\* The minimum of the first array alone.
GlobalMinOfFirst(as) == ArrMin(as[1])

GlobalMin(as) == PyMin([k \in 1..Len(as) |-> ArrMin(as[k])])

GlobalMax(as) == PyMax([k \in 1..Len(as) |-> ArrMax(as[k])])

----------------------------------------------------------------------------
(* Figure, axes and images *)

Axes(k) == [kind |-> "Axes", id |-> k]

NdArray(items) == [kind |-> "ndarray", items |-> items]

List(items) == [kind |-> "list", items |-> items]

Figure(n) == [kind |-> "Figure", ncols |-> n, figsize |-> <<3 * n, 3>>,
              colorbars |-> <<>>, tight |-> FALSE]

\* What an Axes shows: nothing drawn, no title, ticks and frame on.
BlankPanel == [images |-> <<>>, title |-> <<>>, axis_on |-> TRUE]

\* The second value of plt.subplots(1, n): with squeeze left on, one Axes for
\* n = 1 and an array of n Axes otherwise.
SubplotsAxes(n) == IF n = 1 THEN Axes(1) ELSE NdArray([k \in 1..n |-> Axes(k)])

\* The single Axes left as plt.subplots returned it.
NormalizeAxesSkipped(ax, n) == ax

\* if len(arrays) == 1: axes = [axes]
NormalizeAxes(ax, n) == IF n = 1 THEN List(<<ax>>) ELSE ax

\* An Axes is not iterable; an array or a list of them is.
Iterable(ax) == ax.kind \in {"ndarray", "list"}

Shorter(m, n) == IF m < n THEN m ELSE n

\* A pairing that stops one pair early.
ZipButLast(xs, ys) == [k \in 1..(Shorter(Len(xs), Len(ys)) - 1) |-> <<xs[k], ys[k]>>]

\* zip(xs, ys): pairs up to the end of the shorter.
Zip(xs, ys) == [k \in 1..Shorter(Len(xs), Len(ys)) |-> <<xs[k], ys[k]>>]

\* imshow takes a two-dimensional array (or three-dimensional RGB(A) data,
\* which loadtxt never returns) and raises TypeError on any other shape.
ImshowFails(arr) == Len(arr.shape) # 2

\* imshow without vmin and vmax: the image is scaled to its own extremes.
ImshowAutoscale(ax, arr, lo, hi) ==
    [ax |-> ax.id, data |-> arr, cmap |-> "hot", interpolation |-> "nearest",
     vmin |-> Float(ArrMin(arr)), vmax |-> Float(ArrMax(arr))]

\* ax.imshow(arr, cmap='hot', interpolation='nearest', vmin=lo, vmax=hi)
Imshow(ax, arr, lo, hi) ==
    [ax |-> ax.id, data |-> arr, cmap |-> "hot", interpolation |-> "nearest",
     vmin |-> lo, vmax |-> hi]

\* The ax argument of fig.colorbar: axes if len(arrays) > 1 else axes[0].
ColorbarTarget(ax, n) == IF n > 1 THEN ax ELSE ax.items[1]

Colorbar(im, target) ==
    [kind |-> "Colorbar", mappable |-> im, ax |-> target, orientation |-> "vertical"]

----------------------------------------------------------------------------
(* The script *)

Directories ==
    {[exists |-> FALSE, entries |-> {}]} \cup
    {[exists |-> TRUE, entries |-> S] :
        S \in {T \in SUBSET FileNames : Cardinality(T) <= MaxFiles}}

Init ==
    /\ pc = "discover"
    /\ err = NoErr
    /\ dir \in Directories
    /\ csv_files = <<>>
    /\ contents = <<>>
    /\ arrays = <<>>
    /\ global_min = None
    /\ global_max = None
    /\ fig = None
    /\ axes = None
    /\ panels = <<>>
    /\ ims = <<>>
    /\ idx = 0
    /\ cbar = None

\* An uncaught exception ends the run.
Raise(t, l) == pc' = "failed" /\ err' = Error(t, l)

\* Lines 9-12: list the folder, keep the matching names, sort them by index.
Discover ==
    /\ pc = "discover"
    /\ IF ~dir.exists
       THEN Raise("FileNotFoundError", 10) /\ UNCHANGED csv_files
       ELSE \E l \in Listings(dir.entries) :
              IF SortFails(Filter(l))
              THEN Raise("ValueError", 12) /\ UNCHANGED csv_files
              ELSE /\ csv_files' = Sorted(Filter(l))
                   /\ pc' = "load"
                   /\ UNCHANGED err
    /\ UNCHANGED <<dir, contents, arrays, global_min, global_max, fig, axes,
                   panels, ims, idx, cbar>>

\* Line 15, one file of the comprehension: the text read is the file's, and each
\* file is read once.  A failure discards the list being built.
LoadFile ==
    /\ pc = "load"
    /\ Len(arrays) < Len(csv_files)
    /\ \E text \in FileTexts :
         /\ contents' = Append(contents, text)
         /\ IF LoadFails(text)
            THEN Raise("ValueError", 15) /\ arrays' = <<>>
            ELSE arrays' = Append(arrays, LoadTxt(text)) /\ UNCHANGED <<pc, err>>
    /\ UNCHANGED <<dir, csv_files, global_min, global_max, fig, axes, panels,
                   ims, idx, cbar>>

\* Line 15, the comprehension's end: arrays is bound.
LoadDone ==
    /\ pc = "load"
    /\ Len(arrays) = Len(csv_files)
    /\ pc' = "min"
    /\ UNCHANGED <<err, dir, csv_files, contents, arrays, global_min, global_max,
                   fig, axes, panels, ims, idx, cbar>>

\* Line 16 with min(..., default=0): nothing raised on an empty sequence.
ReduceMinDefault ==
    /\ pc = "min"
    /\ IF ReduceFails(arrays)
       THEN global_min' = Float(0) /\ pc' = "max" /\ UNCHANGED err
       ELSE IF EachFails(arrays)
       THEN Raise("ValueError", 16) /\ UNCHANGED global_min
       ELSE /\ global_min' = Float(GlobalMin(arrays))
            /\ pc' = "max"
            /\ UNCHANGED err
    /\ UNCHANGED <<dir, csv_files, contents, arrays, global_max, fig, axes,
                   panels, ims, idx, cbar>>

\* Line 16
ReduceMin ==
    /\ pc = "min"
    /\ IF ReduceFails(arrays) \/ EachFails(arrays)
       THEN Raise("ValueError", 16) /\ UNCHANGED global_min
       ELSE /\ global_min' = Float(GlobalMin(arrays))
            /\ pc' = "max"
            /\ UNCHANGED err
    /\ UNCHANGED <<dir, csv_files, contents, arrays, global_max, fig, axes,
                   panels, ims, idx, cbar>>

\* Line 17
ReduceMax ==
    /\ pc = "max"
    /\ IF ReduceFails(arrays) \/ EachFails(arrays)
       THEN Raise("ValueError", 17) /\ UNCHANGED global_max
       ELSE /\ global_max' = Float(GlobalMax(arrays))
            /\ pc' = "subplots"
            /\ UNCHANGED err
    /\ UNCHANGED <<dir, csv_files, contents, arrays, global_min, fig, axes,
                   panels, ims, idx, cbar>>

\* Line 20: the figure is made first, then its grid of 1 x n axes, which
\* raises ValueError for n = 0.
Subplots ==
    /\ pc = "subplots"
    /\ fig' = Figure(Len(arrays))
    /\ IF Len(arrays) = 0
       THEN Raise("ValueError", 20) /\ UNCHANGED <<axes, panels>>
       ELSE /\ axes' = SubplotsAxes(Len(arrays))
            /\ panels' = [k \in 1..Len(arrays) |-> BlankPanel]
            /\ pc' = "normalize"
            /\ UNCHANGED err
    /\ UNCHANGED <<dir, csv_files, contents, arrays, global_min, global_max,
                   ims, idx, cbar>>

\* Lines 22-23
Normalize ==
    /\ pc = "normalize"
    /\ axes' = NormalizeAxes(axes, Len(arrays))
    /\ pc' = "ims"
    /\ UNCHANGED <<err, dir, csv_files, contents, arrays, global_min, global_max,
                   fig, panels, ims, idx, cbar>>

\* Line 25
InitIms ==
    /\ pc = "ims"
    /\ ims' = <<>>
    /\ pc' = "render"
    /\ UNCHANGED <<err, dir, csv_files, contents, arrays, global_min, global_max,
                   fig, axes, panels, idx, cbar>>

\* Lines 26-30, one iteration: idx counts the pairs enumerate has handed out.
RenderPanel ==
    /\ pc = "render"
    /\ IF ~Iterable(axes)
       THEN Raise("TypeError", 26) /\ UNCHANGED <<ims, panels, idx>>
       ELSE /\ idx < Len(Zip(arrays, axes.items))
            /\ LET arr == Zip(arrays, axes.items)[idx + 1][1]
                   ax  == Zip(arrays, axes.items)[idx + 1][2]
                   im  == Imshow(ax, arr, global_min, global_max)
               IN  IF ImshowFails(arr)
                   THEN Raise("TypeError", 27) /\ UNCHANGED <<ims, panels, idx>>
                   ELSE /\ ims' = Append(ims, im)
                        /\ panels' = [panels EXCEPT ![ax.id] =
                                        [images  |-> Append(@.images, im),
                                         title   |-> TitleOf(idx),
                                         axis_on |-> FALSE]]
                        /\ idx' = idx + 1
                        /\ UNCHANGED <<pc, err>>
    /\ UNCHANGED <<dir, csv_files, contents, arrays, global_min, global_max,
                   fig, axes, cbar>>

\* Line 26, the loop's end: zip is exhausted.
RenderDone ==
    /\ pc = "render"
    /\ Iterable(axes)
    /\ idx = Len(Zip(arrays, axes.items))
    /\ pc' = "colorbar"
    /\ UNCHANGED <<err, dir, csv_files, contents, arrays, global_min, global_max,
                   fig, axes, panels, ims, idx, cbar>>

\* Line 33
AddColorbar ==
    /\ pc = "colorbar"
    /\ IF ims = <<>>
       THEN Raise("IndexError", 33) /\ UNCHANGED <<cbar, fig>>
       ELSE /\ cbar' = Colorbar(ims[1], ColorbarTarget(axes, Len(arrays)))
            /\ fig' = [fig EXCEPT !.colorbars = Append(@, cbar')]
            /\ pc' = "layout"
            /\ UNCHANGED err
    /\ UNCHANGED <<dir, csv_files, contents, arrays, global_min, global_max,
                   axes, panels, ims, idx>>

\* Line 35
TightLayout ==
    /\ pc = "layout"
    /\ fig' = [fig EXCEPT !.tight = TRUE]
    /\ pc' = "show"
    /\ UNCHANGED <<err, dir, csv_files, contents, arrays, global_min, global_max,
                   axes, panels, ims, idx, cbar>>

\* Line 36: the window opens and the call blocks.
Show ==
    /\ pc = "show"
    /\ pc' = "shown"
    /\ UNCHANGED <<err, dir, csv_files, contents, arrays, global_min, global_max,
                   fig, axes, panels, ims, idx, cbar>>

\* The viewer closes the window; plt.show returns and the script ends.
Close ==
    /\ pc = "shown"
    /\ pc' = "done"
    /\ UNCHANGED <<err, dir, csv_files, contents, arrays, global_min, global_max,
                   fig, axes, panels, ims, idx, cbar>>

Next ==
    \/ Discover
    \/ LoadFile
    \/ LoadDone
    \/ ReduceMin
    \/ ReduceMax
    \/ Subplots
    \/ Normalize
    \/ InitIms
    \/ RenderPanel
    \/ RenderDone
    \/ AddColorbar
    \/ TightLayout
    \/ Show
    \/ Close

Spec == Init /\ [][Next]_vars

----------------------------------------------------------------------------
(* Vocabulary of the properties *)

\* The names prefix + middle + suffix, and the middle of one.
IsVariantName(f) ==
    /\ Len(f) >= Len(Prefix) + Len(Suffix)
    /\ f = Prefix \o SubSeq(f, Len(Prefix) + 1, Len(f) - Len(Suffix)) \o Suffix

MidOf(f) == SubSeq(f, Len(Prefix) + 1, Len(f) - Len(Suffix))

DigitChars == {"0", "1", "2", "3", "4", "5", "6", "7", "8", "9"}

\* A non-empty run of decimal digits.
IsNumeral(s) == s # <<>> /\ \A i \in 1..Len(s) : s[i] \in DigitChars

\* An integer literal: a numeral, a sign before it allowed.
IsIntegerText(s) ==
    \/ IsNumeral(s)
    \/ Len(s) >= 2 /\ s[1] \in {"+", "-"} /\ IsNumeral(Tail(s))

\* The value of a numeral of one or two digits.
NumeralValue(s) ==
    IF Len(s) = 1 THEN DigitVal(s[1]) ELSE 10 * DigitVal(s[1]) + DigitVal(s[2])

\* brush_variant_<numeral>.csv
IsCanonical(f) == IsVariantName(f) /\ IsNumeral(MidOf(f))

MatchingEntries == {f \in dir.entries : IsVariantName(f)}

\* Lines 9-12 have run and raised nothing.
Discovered == pc # "discover" /\ ~(pc = "failed" /\ err.line <= 12)

\* The run is at the display step (line 36) or past it.
Displayed == pc \in {"shown", "done"}

Range(s) == {s[k] : k \in 1..Len(s)}

\* 'Variant k' written out, for k < 10.
VariantTitle(k) == <<"V", "a", "r", "i", "a", "n", "t", " ", Digits[k + 1]>>

Rows(text) == Len(text)

Cols(text) == Len(text[1])

\* A text of r >= 1 rows of c >= 1 numbers each.
WellFormed(text) ==
    /\ Len(text) >= 1
    /\ Len(text[1]) >= 1
    /\ \A i \in 1..Len(text) :
         /\ Len(text[i]) = Len(text[1])
         /\ \A j \in 1..Len(text[i]) : IsIntegerText(text[i][j])

Zeros22 == <<Row2(0, 0), Row2(0, 0)>>

Tens22 == <<Row2(10, 10), Row2(10, 10)>>

----------------------------------------------------------------------------
(* C1 *)

\* C1: once discovery has succeeded, csv_files holds exactly the directory's
\* entries named brush_variant_...csv, each once, and the entries
\* brush_variant_<numeral>.csv stand in ascending order of the numeral's value;
\* when the matching entries are brush_variant_0.csv .. brush_variant_N.csv the
\* k-th file (from 0) is brush_variant_k.csv.
C1_DiscoveryOrder ==
    Discovered =>
        /\ \A k \in 1..Len(csv_files) :
             csv_files[k] \in dir.entries /\ IsVariantName(csv_files[k])
        /\ \A f \in dir.entries :
             IsVariantName(f) => \E k \in 1..Len(csv_files) : csv_files[k] = f
        /\ \A i, j \in 1..Len(csv_files) :
             i < j =>
               /\ csv_files[i] # csv_files[j]
               /\ (IsCanonical(csv_files[i]) /\ IsCanonical(csv_files[j]))
                    => NumeralValue(MidOf(csv_files[i])) < NumeralValue(MidOf(csv_files[j]))
        /\ (\A n \in 1..Len(csv_files) :
               \E k \in 1..Len(csv_files) : csv_files[k] = Brush(<<Digits[n]>>))
             => \A k \in 1..Len(csv_files) : csv_files[k] = Brush(<<Digits[k]>>)

\* Discovery has put 1, 9, 10 in this order (by text, 10 stands before 9).
C1_Witness ==
    /\ Discovered
    /\ csv_files = <<Brush(<<"1">>), Brush(<<"9">>), Brush(<<"1", "0">>)>>

----------------------------------------------------------------------------
(* C2 *)

AllCells == UNION {Range(arrays[k].data) : k \in 1..Len(arrays)}

\* C2: once both bounds are computed, global_min <= every cell of every array
\* <= global_max, global_min <= global_max, and each bound is the value of a
\* cell of some array.
C2_GlobalScale ==
    (global_min # None /\ global_max # None) =>
        /\ arrays # <<>>
        /\ \A v \in AllCells : global_min.val <= v /\ v <= global_max.val
        /\ global_min.val <= global_max.val
        /\ global_min.val \in AllCells
        /\ global_max.val \in AllCells

\* Three arrays whose smallest and largest cells lie in the second and third.
C2_Witness ==
    /\ global_min # None
    /\ global_max # None
    /\ Len(arrays) = 3
    /\ arrays[1] = LoadTxt(Zeros22)
    /\ global_min.val = -3
    /\ global_max.val = 12
    /\ arrays[2] # arrays[3]

----------------------------------------------------------------------------
(* C3 *)

\* C3: at the display step there are as many panels and as many imshow calls as
\* discovered files, and panel k holds exactly one image, that of the array
\* loaded from the k-th file.
C3_PanelCount ==
    Displayed =>
        /\ Len(panels) = Len(csv_files)
        /\ Len(ims) = Len(csv_files)
        /\ Len(contents) = Len(csv_files)
        /\ \A k \in 1..Len(csv_files) :
             /\ Len(panels[k].images) = 1
             /\ panels[k].images[1] = ims[k]
             /\ ims[k].ax = k
             /\ ims[k].data.shape = <<Rows(contents[k]), Cols(contents[k])>>
             /\ ims[k].data.data = Flatten(Parsed(contents[k]))

\* Three files of different content are on display.
C3_Witness ==
    /\ pc = "shown"
    /\ Len(csv_files) = 3
    /\ contents[1] # contents[2]
    /\ contents[2] # contents[3]
    /\ contents[1] # contents[3]

----------------------------------------------------------------------------
(* C4 *)

\* C4: in a directory that exists and holds no matching entry, the run gets no
\* further than line 16, where it fails with ValueError; no figure, panel or
\* colorbar exists and the display step is not reached.
C4_EmptyFailsFast ==
    (dir.exists /\ MatchingEntries = {}) =>
        /\ pc \in {"discover", "load", "min", "failed"}
        /\ pc = "failed" => err = Error("ValueError", 16)
        /\ fig = None
        /\ axes = None
        /\ panels = <<>>
        /\ ims = <<>>
        /\ cbar = None

\* A directory of entries none of which matches: the run has failed at line 16.
C4_Witness ==
    /\ dir.exists
    /\ dir.entries # {}
    /\ MatchingEntries = {}
    /\ pc = "failed"
    /\ err = Error("ValueError", 16)

----------------------------------------------------------------------------
(* C5 *)

\* C5: when a matching entry's text between prefix and suffix is no integer,
\* discovery fails with ValueError and no sort key is given.
C5_NonIntegerIndexAborts ==
    (dir.exists /\ \E f \in MatchingEntries : ~IsIntegerText(MidOf(f))) =>
        /\ pc \in {"discover", "failed"}
        /\ pc = "failed" => err = Error("ValueError", 12)

----------------------------------------------------------------------------
(* C6 *)

Drawn == ims # <<>> \/ \E k \in 1..Len(panels) : panels[k].images # <<>>

\* C6: a run that failed in the loader (line 15) has no figure, no axes, no
\* image, no colorbar and no scale; and whenever a figure or an image exists,
\* every discovered file has been read, none of them ragged or with a cell that
\* is no number, and both bounds of the scale are computed.
C6_AllOrNothing ==
    /\ (pc = "failed" /\ err.line = 15) =>
         /\ fig = None
         /\ axes = None
         /\ ~Drawn
         /\ cbar = None
         /\ global_min = None
         /\ global_max = None
    /\ (fig # None \/ Drawn) =>
         /\ Len(contents) = Len(csv_files)
         /\ Len(arrays) = Len(csv_files)
         /\ \A k \in 1..Len(contents) :
              \A i \in 1..Len(contents[k]) :
                 /\ Len(contents[k][i]) = Len(contents[k][1])
                 /\ \A j \in 1..Len(contents[k][i]) : IsIntegerText(contents[k][i][j])
         /\ global_min # None
         /\ global_max # None

\* The loader failed on the third of three files, the first two having loaded.
C6_Witness ==
    /\ pc = "failed"
    /\ err = Error("ValueError", 15)
    /\ Len(csv_files) = 3
    /\ Len(contents) = 3
    /\ WellFormed(contents[1])
    /\ WellFormed(contents[2])

----------------------------------------------------------------------------
(* C7 *)

AllAxes == [k \in 1..Len(csv_files) |-> Axes(k)]

\* C7: with one discovered file the run raises nothing in the layout step nor
\* anywhere but in the loader (line 15), the reduction of an empty array (line
\* 16) and imshow of an array that is not two-dimensional (line 27); axes is
\* the one-element list of the single Axes once line 23 has run, and at the
\* display step one image and one colorbar exist, the colorbar on that Axes;
\* with more files the figure has one colorbar once line 33 has run, on the
\* array of all the axes; a figure never has two colorbars.
C7_SingletonAndColorbar ==
    /\ (Discovered /\ Len(csv_files) = 1) =>
         /\ pc = "failed" => err.line \in {15, 16, 27}
         /\ pc \in {"ims", "render", "colorbar", "layout", "show", "shown", "done"}
              => axes = List(<<Axes(1)>>)
         /\ Displayed =>
              /\ Len(ims) = 1
              /\ Len(panels) = 1
              /\ Len(panels[1].images) = 1
              /\ fig.colorbars = <<cbar>>
              /\ cbar.kind = "Colorbar"
              /\ cbar.ax = Axes(1)
              /\ cbar.mappable = ims[1]
    /\ (Len(csv_files) > 1 /\ pc \in {"layout", "show", "shown", "done"}) =>
         /\ fig.colorbars = <<cbar>>
         /\ cbar.kind = "Colorbar"
         /\ cbar.ax.kind = "ndarray"
         /\ cbar.ax.items = AllAxes
         /\ cbar.mappable = ims[1]
    /\ fig # None => Len(fig.colorbars) <= 1

\* A run of one file is on display.
C7_Witness ==
    /\ pc = "shown"
    /\ Len(csv_files) = 1
    /\ Len(ims) = 1
    /\ cbar # None

----------------------------------------------------------------------------
(* C8 *)

\* C8: every array loaded from a text of r >= 1 rows of c >= 1 numbers has the
\* shape (r, c).
C8_LoaderShape ==
    \A k \in 1..Len(arrays) :
        WellFormed(contents[k]) => arrays[k].shape = <<Rows(contents[k]), Cols(contents[k])>>

----------------------------------------------------------------------------
(* C9 *)

\* The index a canonical name carries.
FileIndex(f) == NumeralValue(MidOf(f))

\* C9: a panel that shows an image is titled 'Variant k', k its position from 0;
\* and at the display step the titles are 'Variant <index of the file>' on
\* every panel exactly when the k-th file's index is k for every k.
C9_TitleIsPosition ==
    /\ \A k \in 1..Len(panels) :
         IF panels[k].images # <<>>
         THEN panels[k].title = VariantTitle(k - 1)
         ELSE panels[k].title = <<>>
    /\ Displayed =>
         ((\A k \in 1..Len(panels) :
              /\ IsCanonical(csv_files[k])
              /\ FileIndex(csv_files[k]) < 10
              /\ panels[k].title = VariantTitle(FileIndex(csv_files[k])))
          <=> (\A k \in 1..Len(panels) : csv_files[k] = Brush(<<Digits[k]>>)))

\* Files 0, 9 and 10 are on display under the titles Variant 0, 1, 2.
C9_Witness ==
    /\ pc = "shown"
    /\ csv_files = <<Brush(<<"0">>), Brush(<<"9">>), Brush(<<"1", "0">>)>>
    /\ panels[1].title = <<"V", "a", "r", "i", "a", "n", "t", " ", "0">>
    /\ panels[2].title = <<"V", "a", "r", "i", "a", "n", "t", " ", "1">>
    /\ panels[3].title = <<"V", "a", "r", "i", "a", "n", "t", " ", "2">>

----------------------------------------------------------------------------
(* C10 *)

ScaleUse ==
    /\ global_min # None => Len(arrays) = Len(csv_files) /\ pc # "load"
    /\ global_max # None => global_min # None
    /\ Drawn => global_min # None /\ global_max # None
    /\ \A k \in 1..Len(ims) : ims[k].vmin = global_min /\ ims[k].vmax = global_max
    /\ \A k \in 1..Len(panels) :
         \A i \in 1..Len(panels[k].images) :
            /\ panels[k].images[i].vmin = global_min
            /\ panels[k].images[i].vmax = global_max
    /\ cbar # None => cbar.mappable.vmin = global_min /\ cbar.mappable.vmax = global_max
    /\ (contents = <<Zeros22, Tens22>> /\ global_max # None)
         => global_min = Float(0) /\ global_max = Float(10)

ScaleKept ==
    /\ global_min # None => global_min' = global_min
    /\ global_max # None => global_max' = global_max
    /\ (global_min = None /\ global_min' # None) => (fig = None /\ ~Drawn)

\* C10: the bounds are assigned when all files are loaded and nothing is drawn
\* yet, an assigned bound never changes, and every image, on every panel and
\* under the colorbar, carries vmin = global_min and vmax = global_max; files of
\* 2x2 zeros and 2x2 tens give the scale (0, 10).
C10_OneScale == [](ScaleUse) /\ [][ScaleKept]_vars

\* The zeros and the tens are on display, both images on the scale (0, 10).
C10_Witness ==
    /\ pc = "shown"
    /\ contents = <<Zeros22, Tens22>>
    /\ ims[1].vmin = Float(0) /\ ims[1].vmax = Float(10)
    /\ ims[2].vmin = Float(0) /\ ims[2].vmax = Float(10)

====
